---------------------------- MODULE Spec2Model ----------------------------
(***************************************************************************)
(* Model of src/resolvers/hacl_star.rs: the HACL* backed resolver of the   *)
(* Noise primitives (Dh25519, CipherChaChaPoly, HashSHA256, HashSHA512).   *)
(*                                                                         *)
(* Byte strings are sequences over 0..255, indexed from 1 (Rust index i is *)
(* TLA+ index i+1).  The hacl_star crate itself (X25519, SHA-2, ChaCha20-  *)
(* Poly1305) is an external dependency: it is represented by small         *)
(* stand-in functions with the same interface and structure (a stream      *)
(* cipher xored onto the data, a one-time polynomial MAC, a Merkle-Damgard *)
(* hash with a block buffer, exponentiation in a prime field).  A panic    *)
(* ends the run of the engine's owner: `panicked` is set and nothing       *)
(* further happens.                                                        *)
(***************************************************************************)
EXTENDS Integers, Sequences, FiniteSets, TLC

VARIABLES
    panicked,     \* a call hit a Rust panic (bounds check, slice split, arithmetic overflow)
    lastCall,     \* the most recent trait call: its name and whether a length precondition was broken
    key,          \* CipherChaChaPoly.key of the engines cipher1 and cipher2
    ciphertext,   \* the caller's buffer handed to encrypt as `out`, after the call
    encCall,      \* arguments, cipher nonce and return value of the most recent encrypt
    resulttext,   \* the caller's buffer handed to decrypt as `out`, after the call
    decCall,      \* arguments, cipher nonce and result of the most recent decrypt
    privkey,      \* Dh25519.privkey
    pubkey,       \* Dh25519.pubkey
    dhOut,        \* the caller's buffer handed to dh as `out`, after the call
    hashAlg,      \* which hash engine is driven: "SHA256" or "SHA512"
    hasher,       \* HashSHA256.hasher / HashSHA512.hasher
    chunks,       \* the chunks given to input() since the engine was last fresh
    epoch,        \* how many reset()/result() calls have made the engine fresh again
    digest,       \* the caller's buffer handed to result as `out`, after the call
    digestOf,     \* the chunks that had been given to input() when result() was called
    resolved      \* what the resolve_* calls made so far have returned, in order

cipherVars == <<key, ciphertext, encCall, resulttext, decCall>>
dhVars == <<privkey, pubkey, dhOut>>
hashVars == <<hashAlg, hasher, chunks, epoch, digest, digestOf>>
vars == <<panicked, lastCall, cipherVars, dhVars, hashVars, resolved>>

-----------------------------------------------------------------------------
(* Bytes and slices *)

Byte == 0 .. 255

Fill(n, b) == [i \in 1 .. n |-> b]

Zeros(n) == Fill(n, 0)

\* s[from ..] limited to `n` bytes, as a sequence of its own
Slice(s, from, n) == [i \in 1 .. n |-> s[from + i]]

RECURSIVE XorBits(_, _, _)
XorBits(a, b, n) ==
    IF n = 0 THEN 0
    ELSE ((a + b) % 2) + 2 * XorBits(a \div 2, b \div 2, n - 1)

Xor8(a, b) == XorBits(a, b, 8)

RECURSIVE Pow2(_)
Pow2(n) == IF n = 0 THEN 1 ELSE 2 * Pow2(n - 1)

\* data with bit `bit` of byte `pos` (1-based) inverted
FlipBit(data, pos, bit) == [data EXCEPT ![pos] = Xor8(@, Pow2(bit))]

\* utils::copy_memory(input, out): copies input over the start of out.  Only defined
\* when input fits; a longer input runs into the bounds check (CopyPanics).
copy_memory(input, out) ==
    [i \in 1 .. Len(out) |-> IF i <= Len(input) THEN input[i] ELSE out[i]]

CopyPanics(input, out) == Len(input) > Len(out)

NoCall == [op |-> "none", badLen |-> FALSE]

-----------------------------------------------------------------------------
(* Sizes fixed by the algorithms *)

KEY_LENGTH == 32

MAC_LENGTH == 16

NONCE_LENGTH == 12

DH_LENGTH == 32

-----------------------------------------------------------------------------
(* The 64-bit nonce counter and its expansion *)

\* A u64 is held as four 16-bit limbs, least significant first.

\* n >> 8
Shr8(n) ==
    [j \in 1 .. 4 |->
        (n[j] \div 256) + (IF j < 4 THEN (n[j + 1] % 256) * 256 ELSE 0)]

RECURSIVE ShiftBytes(_, _)
ShiftBytes(n, i) == IF i = 0 THEN n ELSE ShiftBytes(Shr8(n), i - 1)

\* Faulty variant of write_u64: the bytes in big-endian order (BigEndian::write_u64).
write_u64_BigEndian(buf, n) ==
    [i \in 1 .. Len(buf) |->
        IF i <= 8 THEN ShiftBytes(n, 8 - i)[1] % 256 ELSE buf[i]]

\* byteorder's LittleEndian::write_u64(buf, n): the eight bytes of n, lowest first,
\* over buf[0 .. 8]
write_u64(buf, n) ==
    [i \in 1 .. Len(buf) |->
        IF i <= 8 THEN ShiftBytes(n, i - 1)[1] % 256 ELSE buf[i]]

\* let mut nonce_bytes = [0u8; 12]; LittleEndian::write_u64(&mut nonce_bytes[4..], nonce);
ExpandNonce(nonce) ==
    LET nonce_bytes == Zeros(NONCE_LENGTH)
    IN  Slice(nonce_bytes, 0, 4) \o write_u64(Slice(nonce_bytes, 4, NONCE_LENGTH - 4), nonce)

-----------------------------------------------------------------------------
(* Stand-in for hacl_star::chacha20poly1305 *)

\* the prime of the stand-in field (Poly1305 works modulo 2^130 - 5)
FieldP == 32749

\* One mixing step per byte, over s[lo .. hi] in order (halving keeps the
\* evaluation shallow; the result is that of the left-to-right pass).
RECURSIVE AbsorbRange(_, _, _, _)
AbsorbRange(h, s, lo, hi) ==
    IF lo > hi THEN h
    ELSE IF lo = hi THEN (h * 131 + s[lo] + 1) % FieldP
    ELSE LET mid == (lo + hi) \div 2
             left == AbsorbRange(h, s, lo, mid)
         IN  IF left >= 0 THEN AbsorbRange(left, s, mid + 1, hi) ELSE 0

Absorb(h, s) == AbsorbRange(h, s, 1, Len(s))

\* what the cipher derives from key and nonce before any block is produced
CipherSeed(k, nonce_bytes) == Absorb(Absorb(1, k), nonce_bytes)

\* the cipher's block function: one block per block counter
CipherBlock(seed, counter) == Absorb(seed, <<counter>>)

\* the stream cipher: block counter i for the i-th byte, xored onto the data
StreamXor(seed, m) ==
    [i \in 1 .. Len(m) |-> Xor8(m[i], CipherBlock(seed, i) % 256)]

RECURSIVE PolyEval(_, _, _)
PolyEval(acc, r, elems) ==
    IF elems = <<>> THEN acc
    ELSE PolyEval(((acc + elems[1]) * r) % FieldP, r, Tail(elems))

RECURSIVE EncodeLE(_, _)
EncodeLE(v, n) == IF n = 0 THEN <<>> ELSE <<v % 256>> \o EncodeLE(v \div 256, n - 1)

\* the one-time MAC over the associated data, the ciphertext and both lengths,
\* keyed by block 0 of the cipher: r is never zero
Mac(seed, aad, c) ==
    LET b0 == CipherBlock(seed, 0)
        r == 1 + (b0 % (FieldP - 1))
        s == Absorb(b0, <<0>>)
        marked(x) == [i \in 1 .. Len(x) |-> x[i] + 256]
        elems == marked(aad) \o marked(c) \o <<Len(aad), Len(c)>>
    IN  EncodeLE((PolyEval(0, r, elems) + s) % FieldP, MAC_LENGTH)

\* Key(k).nonce(n).encrypt(aad, m, mac): m is encrypted in place, mac is written
AeadEncrypt(k, nonce_bytes, aad, m) ==
    LET seed == CipherSeed(k, nonce_bytes)
        c == StreamXor(seed, m)
    IN  [m |-> c, mac |-> Mac(seed, aad, c)]

\* Key(k).nonce(n).decrypt(aad, m, mac) -> bool: on success m is decrypted in place.
\* On a tag mismatch m holds either its input or the unauthenticated decryption
\* (`released`), depending on the order in which the library works.
AeadDecrypt(k, nonce_bytes, aad, m, mac, released) ==
    LET seed == CipherSeed(k, nonce_bytes)
        ok == (mac = Mac(seed, aad, m))
    IN  [ok |-> ok,
         m |-> IF ok \/ released THEN StreamXor(seed, m) ELSE m]

-----------------------------------------------------------------------------
(* Inputs of the cipher runs *)

MaxPlainLen == 2

MaxAdLen == 1

\* how much longer than needed the caller makes an output buffer; -1 is too short
Slacks == {-1, 0, 1}

\* 0, 2^32 and 0x0807060504030201 (the counter of the RFC 7539 vector)
Nonces == { <<0, 0, 0, 0>>, <<0, 0, 1, 0>>, <<513, 1027, 1541, 2055>> }

Engines == {1, 2}

\* keys of one byte value, one byte short, exact, and one byte long
KeyInputs == { Fill(n, 28) : n \in {KEY_LENGTH - 1, KEY_LENGTH, KEY_LENGTH + 1} }

Plaintexts == { Fill(n, 52) : n \in 0 .. MaxPlainLen }

AuthTexts == { [i \in 1 .. n |-> 242 + i] : n \in 0 .. MaxAdLen }

\* the caller's output buffers arrive filled with a byte no operation writes by chance
FreshBuffer(n) == Fill(n, 238)

FlipBits == {0, 7}

\* what the caller does to encrypt's output before handing it to decrypt
Tampers(ctLen, adLen) ==
    {[kind |-> "none", pos |-> 0, bit |-> 0], [kind |-> "short", pos |-> 0, bit |-> 0]}
    \cup [kind : {"ct"}, pos : 1 .. ctLen, bit : FlipBits]
    \cup [kind : {"tag"}, pos : {ctLen + 1, ctLen + MAC_LENGTH}, bit : FlipBits]
    \cup [kind : {"ad"}, pos : 1 .. adLen, bit : FlipBits]

NoEncrypt ==
    [done |-> FALSE, key |-> <<>>, nonce |-> <<>>, nonce_bytes |-> <<>>,
     authtext |-> <<>>, plaintext |-> <<>>, outBefore |-> <<>>, ret |-> 0]

NoDecrypt ==
    [status |-> "none", key |-> <<>>, nonce |-> <<>>, nonce_bytes |-> <<>>,
     authtext |-> <<>>, input |-> <<>>, outLen |-> 0, ret |-> 0]

-----------------------------------------------------------------------------
(* impl Cipher for CipherChaChaPoly *)

\* fn set(&mut self, key: &[u8])
CipherSet(e, k) ==
    /\ ~panicked
    /\ lastCall' = [op |-> "Cipher::set", badLen |-> Len(k) # KEY_LENGTH]
    /\ IF CopyPanics(k, key[e])
       THEN /\ panicked' = TRUE
            /\ \E written \in BOOLEAN :
                   key' = IF written THEN [key EXCEPT ![e] = Slice(k, 0, KEY_LENGTH)] ELSE key
       ELSE /\ key' = [key EXCEPT ![e] = copy_memory(k, @)]
            /\ UNCHANGED panicked
    /\ UNCHANGED <<ciphertext, encCall, resulttext, decCall, dhVars, hashVars, resolved>>

\* Faulty variant of EncryptResult: the tag goes to the last MAC_LENGTH bytes of the buffer
\* instead of the bytes right after the ciphertext.
EncryptResult_TagAtEnd(k, nonce, authtext, plaintext, out) ==
    LET nonce_bytes == ExpandNonce(nonce)
        head == Slice(out, 0, Len(plaintext))
        gap == Slice(out, Len(plaintext), Len(out) - Len(plaintext) - MAC_LENGTH)
        sealed == AeadEncrypt(k, nonce_bytes, authtext, copy_memory(plaintext, head))
    IN  [nonce_bytes |-> nonce_bytes,
         out |-> sealed.m \o gap \o sealed.mac,
         ret |-> Len(head) + MAC_LENGTH]

\* what encrypt leaves in the caller's buffer `out`, and what it returns
EncryptResult(k, nonce, authtext, plaintext, out) ==
    LET nonce_bytes == ExpandNonce(nonce)
        head == Slice(out, 0, Len(plaintext))
        tail == Slice(out, Len(plaintext), Len(out) - Len(plaintext))
        sealed == AeadEncrypt(k, nonce_bytes, authtext, copy_memory(plaintext, head))
    IN  [nonce_bytes |-> nonce_bytes,
         out |-> sealed.m \o copy_memory(sealed.mac, tail),
         ret |-> Len(head) + MAC_LENGTH]

\* out.split_at_mut(plaintext.len()) and array_mut_ref!(tag, 0, MAC_LENGTH)
EncryptPanics(plaintext, out) ==
    \/ Len(plaintext) > Len(out)
    \/ Len(out) - Len(plaintext) < MAC_LENGTH

\* fn encrypt(&self, nonce: u64, authtext: &[u8], plaintext: &[u8], out: &mut [u8]) -> usize
Encrypt(e, nonce, authtext, plaintext, out) ==
    /\ ~panicked
    /\ lastCall' = [op |-> "Cipher::encrypt",
                    badLen |-> Len(out) < Len(plaintext) + MAC_LENGTH]
    /\ IF EncryptPanics(plaintext, out)
       THEN /\ panicked' = TRUE
            /\ UNCHANGED <<ciphertext, encCall>>
       ELSE LET r == EncryptResult(key[e], nonce, authtext, plaintext, out)
            IN  /\ ciphertext' = r.out
                /\ encCall' = [done |-> TRUE, key |-> key[e], nonce |-> nonce,
                               nonce_bytes |-> r.nonce_bytes, authtext |-> authtext,
                               plaintext |-> plaintext, outBefore |-> out, ret |-> r.ret]
                /\ UNCHANGED panicked
    /\ UNCHANGED <<key, resulttext, decCall, dhVars, hashVars, resolved>>

\* `len - MAC_LENGTH` and split_at on an input shorter than the tag; copy_memory
\* into an `out` shorter than the ciphertext
DecryptPanics(input, out) ==
    \/ Len(input) < MAC_LENGTH
    \/ CopyPanics(Slice(input, 0, Len(input) - MAC_LENGTH), out)

\* Faulty variant of DecryptResult: the whole of `out` is handed to the library instead of
\* out[..len].
DecryptResult_WholeOut(k, nonce, authtext, input, out, released) ==
    LET nonce_bytes == ExpandNonce(nonce)
        len == Len(input) - MAC_LENGTH
        copied == copy_memory(Slice(input, 0, len), out)
        opened == AeadDecrypt(k, nonce_bytes, authtext, copied,
                              Slice(input, len, MAC_LENGTH), released)
    IN  [nonce_bytes |-> nonce_bytes,
         out |-> opened.m,
         status |-> IF opened.ok THEN "ok" ELSE "err",
         ret |-> IF opened.ok THEN Len(out) ELSE 0]

\* Faulty variant of AeadDecrypt's use: the library's verdict is not looked at.
DecryptResult_Unchecked(k, nonce, authtext, input, out, released) ==
    LET nonce_bytes == ExpandNonce(nonce)
        len == Len(input) - MAC_LENGTH
        copied == copy_memory(Slice(input, 0, len), out)
        opened == AeadDecrypt(k, nonce_bytes, authtext, Slice(copied, 0, len),
                              Slice(input, len, MAC_LENGTH), released)
    IN  [nonce_bytes |-> nonce_bytes,
         out |-> copy_memory(opened.m, copied),
         status |-> "ok",
         ret |-> Len(out)]

\* what decrypt leaves in the caller's buffer `out`, and its result
DecryptResult(k, nonce, authtext, input, out, released) ==
    LET nonce_bytes == ExpandNonce(nonce)
        len == Len(input) - MAC_LENGTH
        c == Slice(input, 0, len)
        tag == Slice(input, len, MAC_LENGTH)
        copied == copy_memory(c, out)
        opened == AeadDecrypt(k, nonce_bytes, authtext, Slice(copied, 0, len), tag, released)
        written == copy_memory(opened.m, copied)
    IN  [nonce_bytes |-> nonce_bytes,
         out |-> written,
         status |-> IF opened.ok THEN "ok" ELSE "err",
         ret |-> IF opened.ok THEN Len(written) ELSE 0]

\* fn decrypt(&self, nonce: u64, authtext: &[u8], ciphertext: &[u8], out: &mut [u8]) -> Result<usize, ()>
Decrypt(e, nonce, authtext, input, out) ==
    /\ ~panicked
    /\ lastCall' = [op |-> "Cipher::decrypt",
                    badLen |-> \/ Len(input) < MAC_LENGTH
                               \/ Len(out) < Len(input) - MAC_LENGTH]
    /\ IF DecryptPanics(input, out)
       THEN /\ panicked' = TRUE
            /\ UNCHANGED <<resulttext, decCall>>
       ELSE \E released \in BOOLEAN :
              LET r == DecryptResult(key[e], nonce, authtext, input, out, released)
              IN  /\ resulttext' = r.out
                  /\ decCall' = [status |-> r.status, key |-> key[e], nonce |-> nonce,
                                 nonce_bytes |-> r.nonce_bytes, authtext |-> authtext,
                                 input |-> input, outLen |-> Len(out), ret |-> r.ret]
                  /\ UNCHANGED panicked
    /\ UNCHANGED <<key, ciphertext, encCall, dhVars, hashVars, resolved>>

\* the part of the caller's buffer that encrypt filled, as the caller passes it on
Tampered(t) ==
    LET sealed == Slice(ciphertext, 0, encCall.ret)
    IN  CASE t.kind \in {"ct", "tag"} -> FlipBit(sealed, t.pos, t.bit)
          [] t.kind = "short" -> Slice(sealed, 0, MAC_LENGTH - 1)
          [] OTHER -> sealed

TamperedAd(t) ==
    IF t.kind = "ad" THEN FlipBit(encCall.authtext, t.pos, t.bit) ELSE encCall.authtext

\* The owner's run follows the tests: both engines are keyed, cipher1 encrypts (any
\* number of times, into a new buffer each time), and what the last encrypt produced
\* is handed once to cipher2's decrypt: as it is under any counter, or tampered with
\* under the counter it was encrypted with.
SetKey ==
    /\ ~encCall.done
    /\ \E e \in Engines, k \in KeyInputs : CipherSet(e, k)

DoEncrypt ==
    /\ decCall.status = "none"
    /\ \E nonce \in Nonces, authtext \in AuthTexts, plaintext \in Plaintexts,
          slack \in Slacks :
        Encrypt(1, nonce, authtext, plaintext,
                FreshBuffer(Len(plaintext) + MAC_LENGTH + slack))

DoDecrypt ==
    /\ encCall.done
    /\ decCall.status = "none"
    /\ \E nonce \in Nonces,
          t \in Tampers(Len(encCall.plaintext), Len(encCall.authtext)),
          slack \in Slacks :
        /\ t.kind = "none" \/ nonce = encCall.nonce
        /\ Len(encCall.plaintext) + slack >= 0
        /\ Decrypt(2, nonce, TamperedAd(t), Tampered(t),
                   FreshBuffer(Len(encCall.plaintext) + slack))

CipherInit ==
    /\ key = [e \in Engines |-> Zeros(KEY_LENGTH)]
    /\ ciphertext = <<>>
    /\ encCall = NoEncrypt
    /\ resulttext = <<>>
    /\ decCall = NoDecrypt

CipherNext == SetKey \/ DoEncrypt \/ DoDecrypt

-----------------------------------------------------------------------------
(* Stand-in for hacl_star::curve25519: exponentiation in the field of FieldP *)

RECURSIVE PowMod(_, _)
PowMod(b, e) ==
    IF e = 0 THEN 1
    ELSE LET half == PowMod(b, e \div 2)
             sq == (half * half) % FieldP
         IN  IF e % 2 = 1 THEN (sq * b) % FieldP ELSE sq

\* the value of a little-endian byte string modulo m
RECURSIVE DecodeLE(_, _)
DecodeLE(s, m) ==
    IF s = <<>> THEN 0
    ELSE (s[1] + 256 * DecodeLE(Tail(s), m)) % m

\* the scalar is clamped before use: low three bits cleared, top bit cleared, bit 254 set
Clamp(secret) ==
    [secret EXCEPT ![1] = @ - (@ % 8), ![DH_LENGTH] = 64 + (@ % 64)]

\* curve25519::scalarmult(out, secret, public): out = secret * public
scalarmult(secret, public) ==
    EncodeLE(PowMod(DecodeLE(public, FieldP), 1 + DecodeLE(Clamp(secret), FieldP - 2)),
             DH_LENGTH)

\* the base point, u = 9
BasePoint == EncodeLE(9, DH_LENGTH)

\* SecretKey::get_public
get_public(secret) == scalarmult(secret, BasePoint)

-----------------------------------------------------------------------------
(* impl Dh for Dh25519 *)

PrivkeyInputs ==
    { Fill(n, b) : n \in {DH_LENGTH - 1, DH_LENGTH, DH_LENGTH + 1}, b \in {0, 165} }

\* what the caller's random source delivers
RngOutputs == { Fill(DH_LENGTH, 7), [i \in 1 .. DH_LENGTH |-> 3 * i] }

PeerKeys ==
    { EncodeLE(9, n) : n \in {DH_LENGTH - 1, DH_LENGTH, DH_LENGTH + 1} }
    \cup { Fill(DH_LENGTH, 230) }

\* fn set(&mut self, privkey: &[u8])
DhSet(k) ==
    /\ ~panicked
    /\ lastCall' = [op |-> "Dh::set", badLen |-> Len(k) # DH_LENGTH]
    /\ IF CopyPanics(k, privkey)
       THEN /\ panicked' = TRUE
            /\ \E written \in BOOLEAN :
                   privkey' = IF written THEN Slice(k, 0, DH_LENGTH) ELSE privkey
            /\ UNCHANGED pubkey
       ELSE /\ privkey' = copy_memory(k, privkey)
            /\ pubkey' = get_public(privkey')
            /\ UNCHANGED panicked
    /\ UNCHANGED <<dhOut, cipherVars, hashVars, resolved>>

\* fn generate(&mut self, rng: &mut Random)
DhGenerate(random) ==
    /\ ~panicked
    /\ lastCall' = [op |-> "Dh::generate", badLen |-> FALSE]
    /\ privkey' = random
    /\ pubkey' = get_public(privkey')
    /\ UNCHANGED <<panicked, dhOut, cipherVars, hashVars, resolved>>

\* array_mut_ref!(out, 0, 32) and array_ref!(pubkey, 0, 32)
DhPanics(peer, out) == Len(out) < DH_LENGTH \/ Len(peer) < DH_LENGTH

\* fn dh(&self, pubkey: &[u8], out: &mut [u8]) -> Result<(), ()>
Dh(peer, out) ==
    /\ ~panicked
    /\ lastCall' = [op |-> "Dh::dh",
                    badLen |-> Len(peer) # DH_LENGTH \/ Len(out) < DH_LENGTH]
    /\ IF DhPanics(peer, out)
       THEN /\ panicked' = TRUE
            /\ UNCHANGED dhOut
       ELSE /\ dhOut' = copy_memory(scalarmult(privkey, Slice(peer, 0, DH_LENGTH)), out)
            /\ UNCHANGED panicked
    /\ UNCHANGED <<privkey, pubkey, cipherVars, hashVars, resolved>>

DoDhSet == \E k \in PrivkeyInputs : DhSet(k)

DoDhGenerate == \E random \in RngOutputs : DhGenerate(random)

DoDh ==
    \E peer \in PeerKeys, slack \in Slacks :
        Dh(peer, FreshBuffer(DH_LENGTH + slack))

\* #[derive(Default)] pub struct Dh25519 { privkey: SecretKey, pubkey: PublicKey }
DhInit ==
    /\ privkey = Zeros(DH_LENGTH)
    /\ pubkey = Zeros(DH_LENGTH)
    /\ dhOut = <<>>

DhNext == DoDhSet \/ DoDhGenerate \/ DoDh

-----------------------------------------------------------------------------
(* Stand-in for hacl_star::sha2: a Merkle-Damgard hash with a block buffer *)

\* Sha256::BLOCK_LENGTH, Sha512::BLOCK_LENGTH
BlockLength(alg) == IF alg = "SHA256" THEN 64 ELSE 128

\* Sha256::HASH_LENGTH, Sha512::HASH_LENGTH
HashLength(alg) == IF alg = "SHA256" THEN 32 ELSE 64

\* the compression function, with the chaining value fed forward
Compress(h, block) == (Absorb(h, block) + 7 * h + 13) % FieldP

\* Sha256::default(), Sha512::default()
ShaDefault(alg) ==
    [alg |-> alg, h |-> IF alg = "SHA256" THEN 256 ELSE 512, buf |-> <<>>, total |-> 0]

RECURSIVE ShaBlocks(_, _, _)
ShaBlocks(h, buf, n) ==
    IF Len(buf) < n THEN [h |-> h, buf |-> buf]
    ELSE ShaBlocks(Compress(h, SubSeq(buf, 1, n)), SubSeq(buf, n + 1, Len(buf)), n)

\* update(data): full blocks are compressed, the rest waits in the buffer
ShaUpdate(st, data) ==
    LET r == ShaBlocks(st.h, st.buf \o data, BlockLength(st.alg))
    IN  [st EXCEPT !.h = r.h, !.buf = r.buf, !.total = @ + Len(data)]

\* finish(out): the padded last block, holding the message length, then the digest
ShaFinish(st) ==
    LET last == Compress(st.h, st.buf \o <<128, st.total % 256, st.total \div 256>>)
    IN  [i \in 1 .. HashLength(st.alg) |-> Absorb(last, <<i>>) % 256]

-----------------------------------------------------------------------------
(* impl Hash for HashSHA256, impl Hash for HashSHA512 *)

MaxChunks == 2

MaxEpochs == 2

HashAlgs == {"SHA256", "SHA512"}

\* chunk lengths around "abc" and the block boundary
ChunkInputs(alg) ==
    { [i \in 1 .. n |-> (96 + i + n) % 256] :
        n \in {0, 3, BlockLength(alg) - 1, BlockLength(alg)} }

RECURSIVE Flatten(_)
Flatten(cs) == IF cs = <<>> THEN <<>> ELSE cs[1] \o Flatten(Tail(cs))

\* a newly constructed engine: HashSHA256::default(), HashSHA512::default()
HashNew(alg) ==
    /\ ~panicked
    /\ alg # hashAlg
    /\ lastCall' = [op |-> "Hash::default", badLen |-> FALSE]
    /\ hashAlg' = alg
    /\ hasher' = ShaDefault(alg)
    /\ chunks' = <<>>
    /\ epoch' = 0
    /\ digest' = <<>>
    /\ digestOf' = <<>>
    /\ UNCHANGED <<panicked, cipherVars, dhVars, resolved>>

\* fn reset(&mut self)
HashReset ==
    /\ ~panicked
    /\ epoch < MaxEpochs
    /\ lastCall' = [op |-> "Hash::reset", badLen |-> FALSE]
    /\ hasher' = ShaDefault(hashAlg)
    /\ chunks' = <<>>
    /\ epoch' = epoch + 1
    /\ UNCHANGED <<panicked, hashAlg, digest, digestOf, cipherVars, dhVars, resolved>>

\* Faulty variant of HashInput: the hasher is started anew for every chunk.
HashInput_Restart(data) ==
    /\ ~panicked
    /\ Len(chunks) < MaxChunks
    /\ lastCall' = [op |-> "Hash::input", badLen |-> FALSE]
    /\ hasher' = ShaUpdate(ShaDefault(hashAlg), data)
    /\ chunks' = Append(chunks, data)
    /\ UNCHANGED <<panicked, hashAlg, epoch, digest, digestOf, cipherVars, dhVars, resolved>>

\* fn input(&mut self, data: &[u8])
HashInput(data) ==
    /\ ~panicked
    /\ Len(chunks) < MaxChunks
    /\ lastCall' = [op |-> "Hash::input", badLen |-> FALSE]
    /\ hasher' = ShaUpdate(hasher, data)
    /\ chunks' = Append(chunks, data)
    /\ UNCHANGED <<panicked, hashAlg, epoch, digest, digestOf, cipherVars, dhVars, resolved>>

\* Faulty variant of HashResult: the digest is taken from the hasher, which is left as it is.
HashResult_KeepState(out) ==
    /\ ~panicked
    /\ epoch < MaxEpochs
    /\ lastCall' = [op |-> "Hash::result", badLen |-> Len(out) < HashLength(hashAlg)]
    /\ IF Len(out) < HashLength(hashAlg)
       THEN /\ panicked' = TRUE
            /\ UNCHANGED <<hasher, chunks, epoch, digest, digestOf>>
       ELSE /\ digest' = copy_memory(ShaFinish(hasher), out)
            /\ hasher' = hasher
            /\ digestOf' = chunks
            /\ chunks' = <<>>
            /\ epoch' = epoch + 1
            /\ UNCHANGED panicked
    /\ UNCHANGED <<hashAlg, cipherVars, dhVars, resolved>>

\* fn result(&mut self, out: &mut [u8])
HashResult(out) ==
    /\ ~panicked
    /\ epoch < MaxEpochs
    /\ lastCall' = [op |-> "Hash::result", badLen |-> Len(out) < HashLength(hashAlg)]
    /\ IF Len(out) < HashLength(hashAlg)
       THEN \* array_mut_ref!(out, 0, 32) fails before the hasher is touched
            /\ panicked' = TRUE
            /\ UNCHANGED <<hasher, chunks, epoch, digest, digestOf>>
       ELSE \* mem::replace(&mut self.hasher, Default::default()).finish(out)
            /\ digest' = copy_memory(ShaFinish(hasher), out)
            /\ hasher' = ShaDefault(hashAlg)
            /\ digestOf' = chunks
            /\ chunks' = <<>>
            /\ epoch' = epoch + 1
            /\ UNCHANGED panicked
    /\ UNCHANGED <<hashAlg, cipherVars, dhVars, resolved>>

DoHashNew == \E alg \in HashAlgs : HashNew(alg)

DoHashInput == \E data \in ChunkInputs(hashAlg) : HashInput(data)

DoHashResult ==
    \E slack \in Slacks : HashResult(FreshBuffer(HashLength(hashAlg) + slack))

HashInit ==
    /\ hashAlg = "SHA256"
    /\ hasher = ShaDefault("SHA256")
    /\ chunks = <<>>
    /\ epoch = 0
    /\ digest = <<>>
    /\ digestOf = <<>>

HashNext == DoHashNew \/ HashReset \/ DoHashInput \/ DoHashResult

-----------------------------------------------------------------------------
(* impl CryptoResolver for HaclStarResolver *)

MaxResolves == 3

\* params::DHChoice, params::HashChoice, params::CipherChoice
DHChoice == {"Curve25519", "Ed448"}

HashChoice == {"SHA256", "SHA512", "Blake2s", "Blake2b"}

CipherChoice == {"ChaChaPoly", "AESGCM"}

None == [type |-> "None"]

\* Some(Box::new(Dh25519::default())) and the like: a new engine in its default state
Dh25519Default ==
    [type |-> "Dh25519", privkey |-> Zeros(DH_LENGTH), pubkey |-> Zeros(DH_LENGTH)]

HashSHA256Default == [type |-> "HashSHA256", hasher |-> ShaDefault("SHA256")]

HashSHA512Default == [type |-> "HashSHA512", hasher |-> ShaDefault("SHA512")]

CipherChaChaPolyDefault == [type |-> "CipherChaChaPoly", key |-> Zeros(KEY_LENGTH)]

\* fn name(&self) -> &'static str, of each engine
name(engine) ==
    CASE engine.type = "Dh25519" -> "25519"
      [] engine.type = "HashSHA256" -> "SHA256"
      [] engine.type = "HashSHA512" -> "SHA512"
      [] engine.type = "CipherChaChaPoly" -> "ChaChaPoly"

resolve_rng == None

resolve_dh(choice) == IF choice = "Curve25519" THEN Dh25519Default ELSE None

\* Faulty variant of resolve_hash: both supported choices get the SHA-256 engine.
resolve_hash_Sha256Only(choice) ==
    CASE choice = "SHA256" -> HashSHA256Default
      [] choice = "SHA512" -> HashSHA256Default
      [] OTHER -> None

resolve_hash(choice) ==
    CASE choice = "SHA256" -> HashSHA256Default
      [] choice = "SHA512" -> HashSHA512Default
      [] OTHER -> None

resolve_cipher(choice) ==
    CASE choice = "ChaChaPoly" -> CipherChaChaPolyDefault
      [] OTHER -> None

\* one call on the resolver; the box it returns is the caller's
Resolve(call, choice, result) ==
    /\ ~panicked
    /\ Len(resolved) < MaxResolves
    /\ lastCall' = [op |-> call, badLen |-> FALSE]
    /\ resolved' = Append(resolved, [call |-> call, choice |-> choice, result |-> result])
    /\ UNCHANGED <<panicked, cipherVars, dhVars, hashVars>>

ResolveRng == Resolve("resolve_rng", "", resolve_rng)

ResolveDh == \E choice \in DHChoice : Resolve("resolve_dh", choice, resolve_dh(choice))

ResolveHash == \E choice \in HashChoice : Resolve("resolve_hash", choice, resolve_hash(choice))

ResolveCipher ==
    \E choice \in CipherChoice : Resolve("resolve_cipher", choice, resolve_cipher(choice))

ResolverNext == ResolveRng \/ ResolveDh \/ ResolveHash \/ ResolveCipher

-----------------------------------------------------------------------------
(* The specifications: one per engine, each driven by its owner alone *)

Init ==
    /\ panicked = FALSE
    /\ lastCall = NoCall
    /\ CipherInit
    /\ DhInit
    /\ HashInit
    /\ resolved = <<>>

SpecCipher == Init /\ [][CipherNext]_vars

SpecDh == Init /\ [][DhNext]_vars

SpecHash == Init /\ [][HashNext]_vars

SpecResolver == Init /\ [][ResolverNext]_vars

-----------------------------------------------------------------------------
(* Properties of the cipher engine, checked under SpecCipher *)

\* the bytes encrypt produced: ciphertext and tag, without the rest of the buffer
Sealed == Slice(ciphertext, 0, Len(encCall.plaintext) + MAC_LENGTH)

Decrypted == decCall.status # "none"

\* the decrypt ran under the key and the counter of the encrypt
SameKeyAndNonce ==
    encCall.done /\ Decrypted /\ decCall.key = encCall.key /\ decCall.nonce = encCall.nonce

\* a and b have the same length and differ in exactly one bit
OneBitApart(a, b) ==
    /\ Len(a) = Len(b)
    /\ \E i \in 1 .. Len(a) :
        /\ \E bit \in 0 .. 7 : Xor8(a[i], b[i]) = Pow2(bit)
        /\ \A j \in 1 .. Len(a) : j # i => a[j] = b[j]

\* C1: AEAD round trip.  Whenever decrypt is given exactly the len(p)+16 bytes that
\* encrypt produced, with the same key, counter and associated data, and an output
\* buffer of at least len(p) bytes, it succeeds and the first len(p) bytes of the
\* output are the plaintext (the empty plaintext included).
C1_RoundTrip ==
    ( /\ SameKeyAndNonce
      /\ decCall.authtext = encCall.authtext
      /\ decCall.input = Sealed
      /\ decCall.outLen >= Len(encCall.plaintext) )
    => /\ decCall.status = "ok"
       /\ Slice(resulttext, 0, Len(encCall.plaintext)) = encCall.plaintext

\* C1 witness: a non-empty plaintext with associated data came back from an engine
\* keyed by set, into a buffer longer than the plaintext.
C1_Witness ==
    /\ SameKeyAndNonce
    /\ decCall.status = "ok"
    /\ decCall.key = Fill(KEY_LENGTH, 28)
    /\ Len(encCall.plaintext) = MaxPlainLen
    /\ Len(encCall.authtext) > 0
    /\ decCall.outLen > Len(encCall.plaintext)
    /\ Slice(resulttext, 0, Len(encCall.plaintext)) = encCall.plaintext

\* C2: tamper detection.  Under the key and counter of the encrypt, a decrypt whose
\* ciphertext-with-tag or associated data is one bit away from what encrypt
\* produced fails; a decrypt succeeds only on exactly what encrypt produced; and no
\* decrypt, failed or not, changes an engine's key.
C2_TamperDetected ==
    /\ [](( /\ SameKeyAndNonce
            /\ \/ OneBitApart(decCall.input, Sealed) /\ decCall.authtext = encCall.authtext
               \/ decCall.input = Sealed /\ OneBitApart(decCall.authtext, encCall.authtext) )
          => decCall.status = "err")
    /\ [](SameKeyAndNonce /\ decCall.status = "ok"
          => decCall.input = Sealed /\ decCall.authtext = encCall.authtext)
    /\ [][lastCall'.op = "Cipher::decrypt" => key' = key]_vars

\* C2 witness: a decrypt of an untouched ciphertext and tag under associated data
\* with one bit flipped has failed.
C2_Witness ==
    /\ SameKeyAndNonce
    /\ decCall.status = "err"
    /\ decCall.input = Sealed
    /\ OneBitApart(decCall.authtext, encCall.authtext)

\* C3: a successful decrypt returns the number of plaintext bytes, the length of
\* its input less the 16 bytes of the tag, whatever the length of the output buffer.
C3_ReturnsPlaintextLength ==
    decCall.status = "ok" => decCall.ret = Len(decCall.input) - MAC_LENGTH

\* C4: with an output buffer of at least len(p)+16 bytes encrypt does not fail and
\* returns len(p)+16; the buffer then holds the ciphertext in [0, len(p)), the tag
\* in [len(p), len(p)+16), and its old bytes from len(p)+16 on.
C4_EncryptLayout ==
    /\ (lastCall.op = "Cipher::encrypt" /\ ~lastCall.badLen) => (~panicked /\ encCall.done)
    /\ encCall.done =>
        LET n == Len(encCall.plaintext)
            sealed == AeadEncrypt(encCall.key, encCall.nonce_bytes, encCall.authtext,
                                  encCall.plaintext)
        IN  /\ encCall.ret = n + MAC_LENGTH
            /\ Len(ciphertext) = Len(encCall.outBefore)
            /\ Slice(ciphertext, 0, n) = sealed.m
            /\ Slice(ciphertext, n, MAC_LENGTH) = sealed.mac
            /\ \A i \in n + MAC_LENGTH + 1 .. Len(ciphertext) :
                   ciphertext[i] = encCall.outBefore[i]

\* C4 witness: a non-empty plaintext was encrypted into a buffer with room to spare.
C4_Witness ==
    /\ encCall.done
    /\ Len(encCall.plaintext) > 0
    /\ Len(ciphertext) > Len(encCall.plaintext) + MAC_LENGTH
    /\ encCall.ret = Len(encCall.plaintext) + MAC_LENGTH

\* byte i (0 .. 7) of a counter held in 16-bit limbs: (n div 256^i) mod 256
CounterByte(n, i) == (n[(i \div 2) + 1] \div (IF i % 2 = 0 THEN 1 ELSE 256)) % 256

NonceLayout(counter, nonce_bytes) ==
    /\ Len(nonce_bytes) = NONCE_LENGTH
    /\ \A i \in 1 .. 4 : nonce_bytes[i] = 0
    /\ \A i \in 0 .. 7 : nonce_bytes[5 + i] = CounterByte(counter, i)

\* C5: nonce expansion.  The 12-byte nonce that encrypt and decrypt hand to the
\* cipher has bytes 0..3 zero and byte 4+i equal to (n div 256^i) mod 256 for the
\* counter n of the call, and calls with different counters use different nonces.
C5_NonceExpansion ==
    /\ encCall.done => NonceLayout(encCall.nonce, encCall.nonce_bytes)
    /\ Decrypted => NonceLayout(decCall.nonce, decCall.nonce_bytes)
    /\ (encCall.done /\ Decrypted /\ encCall.nonce # decCall.nonce)
           => encCall.nonce_bytes # decCall.nonce_bytes

\* C5 witness: the counter 0x0807060504030201 was expanded for an encrypt and the
\* counter 2^32 for the decrypt after it.
C5_Witness ==
    /\ encCall.done
    /\ Decrypted
    /\ encCall.nonce = <<513, 1027, 1541, 2055>>
    /\ encCall.nonce_bytes = <<0, 0, 0, 0, 1, 2, 3, 4, 5, 6, 7, 8>>
    /\ decCall.nonce = <<0, 0, 1, 0>>
    /\ decCall.nonce_bytes = <<0, 0, 0, 0, 0, 0, 0, 0, 1, 0, 0, 0>>

-----------------------------------------------------------------------------
(* Properties of the DH engine, checked under SpecDh *)

\* C6: in every state a caller can observe, from default construction on, the
\* public key held is the one derived from the private scalar held.
C6_PubkeyDerived == ~panicked => pubkey = get_public(privkey)

\* C7: a call given a buffer of the wrong length aborts: it does not return, and
\* it leaves the key material of the engines as it was.
C7_BadLengthAborts ==
    [][lastCall'.badLen =>
          /\ panicked'
          /\ privkey' = privkey
          /\ pubkey' = pubkey
          /\ key' = key]_vars

-----------------------------------------------------------------------------
(* Properties of the resolver, checked under SpecResolver *)

Supported(call, choice) ==
    \/ call = "resolve_dh" /\ choice = "Curve25519"
    \/ call = "resolve_hash" /\ choice \in {"SHA256", "SHA512"}
    \/ call = "resolve_cipher" /\ choice = "ChaChaPoly"

\* the name the engine of a supported choice must report
ExpectedName(choice) == IF choice = "Curve25519" THEN "25519" ELSE choice

\* C8: resolver mapping.  resolve_rng always reports absence; resolve_dh,
\* resolve_hash and resolve_cipher return an engine exactly for Curve25519, for
\* SHA256 and SHA512, and for ChaChaPoly, and absence otherwise, never a fault; the
\* engine's name() is that of the choice; and a resolve call leaves what earlier
\* calls returned, and every engine, as it was.
C8_ResolverMapping ==
    /\ [](/\ ~panicked
          /\ \A i \in 1 .. Len(resolved) :
               LET r == resolved[i]
               IN  /\ (r.result # None) <=> Supported(r.call, r.choice)
                   /\ r.result # None => name(r.result) = ExpectedName(r.choice))
    /\ [][/\ Len(resolved') = Len(resolved) + 1
          /\ \A i \in 1 .. Len(resolved) : resolved'[i] = resolved[i]
          /\ UNCHANGED <<cipherVars, dhVars, hashVars>>]_vars

\* C8 witness: a SHA-512 engine was returned after an absent RNG and an absent
\* (unsupported) cipher.
C8_Witness ==
    /\ Len(resolved) = 3
    /\ resolved[1].call = "resolve_rng" /\ resolved[1].result = None
    /\ resolved[2].call = "resolve_cipher" /\ resolved[2].choice = "AESGCM"
    /\ resolved[2].result = None
    /\ resolved[3].call = "resolve_hash" /\ resolved[3].choice = "SHA512"
    /\ resolved[3].result # None
    /\ name(resolved[3].result) = "SHA512"

-----------------------------------------------------------------------------
(* Properties of the hash engines, checked under SpecHash *)

\* the digest of a message hashed in one piece by a new hasher
OneShot(alg, msg) == ShaFinish(ShaUpdate(ShaDefault(alg), msg))

\* the digest that result() wrote, without the rest of the caller's buffer
Written == Slice(digest, 0, HashLength(hashAlg))

\* C9: chunking independence.  On an engine fresh from construction, what result()
\* yields after any sequence of input() calls is the digest of the concatenation of
\* the chunks hashed in one piece, however the chunks were cut (empty ones
\* included); this holds of the digest result() would give at any point.
C9_ChunkingIndependent ==
    /\ ~panicked => ShaFinish(hasher) = OneShot(hashAlg, Flatten(chunks))
    /\ (lastCall.op = "Hash::result" /\ ~panicked /\ epoch = 1)
           => Written = OneShot(hashAlg, Flatten(digestOf))

\* C9 witness: a fresh engine was given two non-empty chunks that together cross a
\* block boundary, and result() was called.
C9_Witness ==
    /\ lastCall.op = "Hash::result" /\ ~panicked /\ epoch = 1
    /\ Len(digestOf) = 2
    /\ Len(digestOf[1]) = 3
    /\ Len(digestOf[2]) = BlockLength(hashAlg) - 1
    /\ Written = OneShot(hashAlg, Flatten(digestOf))

\* C10: hash lifecycle.  reset() and result() both leave the engine as a newly
\* constructed one, so the digest written by a result() that follows an earlier
\* reset() or result() is the digest of exactly the chunks given since then: of the
\* empty message when there were none.
C10_FreshAfterResetAndResult ==
    /\ (lastCall.op \in {"Hash::reset", "Hash::result"} /\ ~panicked)
           => hasher = ShaDefault(hashAlg) /\ chunks = <<>>
    /\ (lastCall.op = "Hash::result" /\ ~panicked /\ epoch > 1)
           => Written = OneShot(hashAlg, Flatten(digestOf))

\* C10 witness: a result() directly after an earlier reset() or result() has
\* written the digest of the empty message.
C10_Witness ==
    /\ lastCall.op = "Hash::result" /\ ~panicked /\ epoch = 2
    /\ digestOf = <<>>
    /\ Written = OneShot(hashAlg, <<>>)

====
